---- MODULE Spec2Model ----
(***************************************************************************)
(* A model of gadmin (src/gadmin.py): the bulk user deletion with its      *)
(* per-property worker processes, the batched user / tag operations, the   *)
(* single-entity wrappers with their two except clauses, and the           *)
(* DDMMYYYY -> epoch-milliseconds conversion used for tag schedules.       *)
(***************************************************************************)
EXTENDS Integers, Sequences, FiniteSets, TLC

(***************************************************************************)
(* Bounds of the model.                                                    *)
(***************************************************************************)
MaxAccounts == 2
\* web properties of all accounts together
MaxProps == 2
\* views (profiles) of all web properties together
MaxViews == 2
MaxUsers == 2
\* insert requests of all users together
MaxRequests == 2
MaxTags == 3
MaxLimit == 2

\* The e-mail addresses the remote service knows, in a fixed listing order.
EmailSeq == <<"u1@example.com", "u2@example.com">>
Emails == {EmailSeq[i] : i \in 1..Len(EmailSeq)}

SeqsUpTo(S, n) == UNION {[1..k -> S] : k \in 0..n}

NoDup(s) == \A i, j \in 1..Len(s) : i # j => s[i] # s[j]

\* An account summary is the list of its web properties; a web property is
\* summarised by the number of its profiles (views).  Ids are positions.
PropertySummaries == 0..MaxViews
AccountSummaries == SeqsUpTo(PropertySummaries, MaxProps)

RECURSIVE SumProps(_)
SumProps(accounts) ==
    IF accounts = <<>> THEN 0 ELSE Len(Head(accounts)) + SumProps(Tail(accounts))

RECURSIVE Sum(_)
Sum(ns) == IF ns = <<>> THEN 0 ELSE Head(ns) + Sum(Tail(ns))

RECURSIVE SumViews(_)
SumViews(accounts) ==
    IF accounts = <<>> THEN 0 ELSE Sum(Head(accounts)) + SumViews(Tail(accounts))

SummaryLists ==
    {s \in SeqsUpTo(AccountSummaries, MaxAccounts) :
        SumProps(s) <= MaxProps /\ SumViews(s) <= MaxViews}
UserLists == {s \in SeqsUpTo(Emails, MaxUsers) : NoDup(s)}

\* The user-links the remote service holds: an entity user link has an id
\* and, under userRef, the e-mail of its user.
LinkSeq == [i \in 1..Len(EmailSeq) |-> [id |-> 100 + i, email |-> EmailSeq[i]]]

\* The 2xx answers of profileUserLinks().list(...).execute(): the links of
\* the view, one per e-mail, in EmailSeq order.
LinkLists == {SelectSeq(LinkSeq, LAMBDA x : x.email \in S) : S \in SUBSET Emails}

\* batch_add_users: users is a list of (email, requests); a request is
\* (webPropertyId, profileId, permissions), well formed or not.
Requests == [webPropertyId : {1}, profileId : {1}, wellFormed : BOOLEAN]
RECURSIVE SumRequests(_)
SumRequests(us) ==
    IF us = <<>> THEN 0 ELSE Len(Head(us)[2]) + SumRequests(Tail(us))

AddUserLists ==
    {us \in SeqsUpTo(Emails \X SeqsUpTo(Requests, MaxRequests), MaxUsers) :
        SumRequests(us) <= MaxRequests}

VARIABLES
    op,                \* the bulk operation that is running
    pc,                \* position of the caller inside the bulk operation
    exc,               \* exception that left the bulk operation ("none" if none)
    startMethod,       \* multiprocessing start method of the platform
    users,             \* the `users` argument (e-mails, or (e-mail, requests))
    tags,              \* the `tags` argument of the batched tag operations
    LIMIT,             \* the LIMIT argument of the batched tag operations
    account_summaries, \* response of accountSummaries().list().execute()
    ai,                \* index of `account` in the outer loop
    ui,                \* index of `user` in the inner loop
    pi,                \* index of the next property to spawn / process to join
    processes,         \* the worker processes of the current (account, user)
    batch,             \* the caller's BatchHttpRequest: its queued requests
    log,               \* what the caller's process printed (callbacks included)
    wire,              \* the HTTP batch calls that reached the network
    nBatches,          \* BatchHttpRequest objects created so far
    nExecutes,         \* batch.execute() calls made so far
    spawned,           \* <<account, property>> of every Process started
    executedPairs,     \* (account, user) index pairs whose batch was executed
    reported           \* the calls of the batch callback: id, request, exception

bulkVars == <<op, pc, exc, startMethod, users, tags, LIMIT,
              account_summaries, ai, ui, pi, processes, batch, log, wire,
              nBatches, nExecutes, spawned, executedPairs, reported>>

VARIABLES
    sop,               \* the single-entity operation that was called
    sargs,             \* its arguments
    spc,               \* position inside it
    sresponse,         \* the answer to its remote call ("none" before it)
    sresult,           \* its return value
    sexc,              \* exception that left it ("none" if none)
    slog,              \* what it printed
    scalls             \* remote calls it issued

singleVars == <<sop, sargs, spc, sresponse, sresult, sexc, slog, scalls>>

VARIABLES
    startDate,         \* create_tag / batch_create_tags: the start date string
    endDate,           \* the end date string
    calendar,          \* the two dates on the calendar, with their day counts
    tag_body           \* the tag body, with its schedule once computed

dateVars == <<startDate, endDate, calendar, tag_body>>

vars == <<bulkVars, singleVars, dateVars>>

(***************************************************************************)
(* BatchHttpRequest, as gadmin uses it: add() appends one request under    *)
(* the next request id, execute() returns at once when nothing is queued,  *)
(* otherwise sends one HTTP batch and hands every queued item, with its    *)
(* id and its response or exception, to the callback.                      *)
(***************************************************************************)
BatchAdd(b, request) == Append(b, request)

\* lines 135-139
handle_delete_user(requestId, response, exception) ==
    IF exception # "none"
    THEN <<[kind |-> "error", id |-> requestId]>>
    ELSE <<[kind |-> "deleted", id |-> requestId]>>

\* lines 196-200
handle_create_user(requestId, response, exception) ==
    IF exception # "none"
    THEN <<[kind |-> "error", id |-> requestId]>>
    ELSE <<[kind |-> "created_user", id |-> requestId]>>

\* A callback that takes every answer for a success.
handle_create_tag_swallow(requestId, response, exception) ==
    <<[kind |-> "created_tag", id |-> requestId]>>

\* lines 363-367
handle_create_tag(requestId, response, exception) ==
    IF exception # "none"
    THEN <<[kind |-> "error", id |-> requestId]>>
    ELSE <<[kind |-> "created_tag", id |-> requestId]>>

\* lines 340-342: only a failure is printed.
handle_delete_tag(requestId, response, exception) ==
    IF exception # "none"
    THEN <<[kind |-> "error", id |-> requestId]>>
    ELSE <<>>

\* The callback each bulk operation gives its batch.
callback(o, requestId, response, exception) ==
    CASE o = "batch_delete_users" -> handle_delete_user(requestId, response, exception)
      [] o = "batch_add_users" -> handle_create_user(requestId, response, exception)
      [] o = "batch_create_tags" -> handle_create_tag(requestId, response, exception)
      [] o = "batch_delete_tags" -> handle_delete_tag(requestId, response, exception)

RECURSIVE Callbacks(_, _, _, _)
\* What the callback prints for the items i..Len(b), item k ending as res[k].
Callbacks(o, b, res, i) ==
    IF i > Len(b) THEN <<>>
    ELSE callback(o, i, b[i], res[i]) \o Callbacks(o, b, res, i + 1)

\* The callback's calls for a batch b whose items ended as res.
Reports(b, res) ==
    [i \in 1..Len(b) |-> [id |-> i, request |-> b[i], exception |-> res[i]]]

ItemOutcomes(b) == [1..Len(b) -> {"none", "HttpError"}]

(***************************************************************************)
(* batch_delete_users                                                      *)
(***************************************************************************)
Account == account_summaries[ai]
User == users[ui]

\* Loops that leave the account after its first user.
NextPair_one_user(a, u) ==
    IF a + 1 > Len(account_summaries) \/ Len(users) = 0
    THEN [pc |-> "timing", ai |-> Len(account_summaries) + 1, ui |-> 1]
    ELSE [pc |-> "pair", ai |-> a + 1, ui |-> 1]

\* The loop headers of lines 147 and 150: the next (account, user) pair at
\* or after (a, u), or the end of the loops ("timing", line 166).
NextPair(a, u) ==
    IF a > Len(account_summaries) THEN [pc |-> "timing", ai |-> a, ui |-> u]
    ELSE IF u <= Len(users) THEN [pc |-> "pair", ai |-> a, ui |-> u]
    ELSE IF a + 1 > Len(account_summaries) \/ Len(users) = 0
         THEN [pc |-> "timing", ai |-> Len(account_summaries) + 1, ui |-> 1]
         ELSE [pc |-> "pair", ai |-> a + 1, ui |-> 1]

\* line 144: the account summaries are listed, outside any try.
ListAccountSummaries ==
    /\ op = "batch_delete_users" /\ pc = "start"
    /\ \/ \E s \in SummaryLists :
            /\ account_summaries' = s
            /\ pc' = IF Len(s) = 0 \/ Len(users) = 0 THEN "timing" ELSE "pair"
            /\ exc' = exc
       \/ /\ exc' = "HttpError" /\ pc' = "raised"
          /\ UNCHANGED account_summaries
    /\ UNCHANGED <<op, startMethod, users, tags, LIMIT, ai, ui, pi, processes,
                   batch, log, wire, nBatches, nExecutes, spawned, executedPairs, reported>>
    /\ UNCHANGED <<singleVars, dateVars>>

\* lines 151-152: a fresh process list and a fresh batch for the pair.
NewPair ==
    /\ op = "batch_delete_users" /\ pc = "pair"
    /\ processes' = <<>>
    /\ batch' = <<>>
    /\ nBatches' = nBatches + 1
    /\ pi' = 1
    /\ pc' = "spawn"
    /\ UNCHANGED <<op, exc, startMethod, users, tags, LIMIT, account_summaries, ai, ui, log,
                   wire, nExecutes, spawned, executedPairs, reported>>
    /\ UNCHANGED <<singleVars, dateVars>>

\* A worker that filters by the first e-mail of the list, whatever the pair.
ForkedWorker_first_user(k) ==
    [property |-> k, views |-> Account[k], user |-> users[1], account |-> ai,
     pair |-> <<ai, ui>>, batch |-> batch, listed |-> <<>>, vi |-> 1, state |-> "running",
     joined |-> FALSE]

\* The child of a fork: a copy of the caller's memory at p.start(), so its
\* own copy of `batch` and of the loop variable `user`.
ForkedWorker(k) ==
    [property |-> k, views |-> Account[k], user |-> User, account |-> ai,
     pair |-> <<ai, ui>>, batch |-> batch, listed |-> <<>>, vi |-> 1, state |-> "running",
     joined |-> FALSE]

\* lines 154-160: one Process per web property, started at once.  Under the
\* spawn / forkserver start methods the Process object is pickled, and the
\* nested function target cannot be: p.start() raises (AttributeError or
\* PicklingError, by the interpreter's version).
StartProcess ==
    /\ op = "batch_delete_users" /\ pc = "spawn"
    /\ pi <= Len(Account)
    /\ IF startMethod = "fork"
       THEN /\ processes' = Append(processes, ForkedWorker(pi))
            /\ spawned' = spawned \o <<<<ai, pi>>>>
            /\ pi' = pi + 1
            /\ UNCHANGED <<pc, exc>>
       ELSE /\ exc' = "PicklingError" /\ pc' = "raised"
            /\ UNCHANGED <<processes, spawned, pi>>
    /\ UNCHANGED <<op, startMethod, users, tags, LIMIT, account_summaries, ai, ui, batch,
                   log, wire, nBatches, nExecutes, executedPairs, reported>>
    /\ UNCHANGED <<singleVars, dateVars>>

\* line 154 exhausted: on to the join loop.
AllStarted ==
    /\ op = "batch_delete_users" /\ pc = "spawn"
    /\ pi > Len(Account)
    /\ pc' = "join" /\ pi' = 1
    /\ UNCHANGED <<op, exc, startMethod, users, tags, LIMIT, account_summaries, ai, ui,
                   processes, batch, log, wire, nBatches, nExecutes, spawned,
                   executedPairs, reported>>
    /\ UNCHANGED <<singleVars, dateVars>>

\* delete_user_from_property, one iteration of its loop over the views
\* (lines 107-133), run in the worker's own process: list the view's links,
\* keep those of `user`, add one delete request per kept link to `batch`.
\* A filter that keeps every link of the view.
MatchingLinks_all(links, user) == [i \in 1..Len(links) |-> links[i].id]

\* lines 117-121: the ids of the links whose e-mail is `user`.
MatchingLinks(links, user) ==
    LET kept == SelectSeq(links, LAMBDA x : x.email = user)
    IN [i \in 1..Len(kept) |-> kept[i].id]

RECURSIVE AddDeletes(_, _, _)
AddDeletes(b, w, links) ==
    IF links = <<>> THEN b
    ELSE AddDeletes(
            BatchAdd(b, [accountId |-> w.account, webPropertyId |-> w.property,
                         profileId |-> w.vi, linkId |-> Head(links)]),
            w, Tail(links))

delete_user_from_property(w, links) ==
    [w EXCEPT !.batch = AddDeletes(w.batch, w, MatchingLinks(links, w.user)),
              !.listed = Append(w.listed, links),
              !.vi = w.vi + 1]

WorkerListView ==
    /\ op = "batch_delete_users"
    /\ \E k \in 1..Len(processes) :
        /\ processes[k].state = "running"
        /\ processes[k].vi <= processes[k].views
        /\ \/ \E links \in LinkLists :
                processes' = [processes EXCEPT
                    ![k] = delete_user_from_property(processes[k], links)]
           \* a non-2xx answer (HttpError) or a link without an e-mail
           \* (KeyError at line 120): the worker process dies, alone
           \/ \E e \in {"HttpError", "KeyError"} :
                processes' = [processes EXCEPT ![k].state = "crashed"]
    /\ UNCHANGED <<op, pc, exc, startMethod, users, tags, LIMIT, account_summaries, ai, ui,
                   pi, batch, log, wire, nBatches, nExecutes, spawned,
                   executedPairs, reported>>
    /\ UNCHANGED <<singleVars, dateVars>>

\* The worker's loop is over: its process exits, and its memory with it.
WorkerExit ==
    /\ op = "batch_delete_users"
    /\ \E k \in 1..Len(processes) :
        /\ processes[k].state = "running"
        /\ processes[k].vi > processes[k].views
        /\ processes' = [processes EXCEPT ![k].state = "exited"]
    /\ UNCHANGED <<op, pc, exc, startMethod, users, tags, LIMIT, account_summaries, ai, ui,
                   pi, batch, log, wire, nBatches, nExecutes, spawned,
                   executedPairs, reported>>
    /\ UNCHANGED <<singleVars, dateVars>>

\* A join that does not wait.
Terminated_nowait(w) == TRUE

\* process.join() returns once the worker process has terminated.
Terminated(w) == w.state # "running"

\* lines 162-163
JoinProcess ==
    /\ op = "batch_delete_users" /\ pc = "join"
    /\ pi <= Len(processes)
    /\ Terminated(processes[pi])
    /\ processes' = [processes EXCEPT ![pi].joined = TRUE]
    /\ pi' = pi + 1
    /\ UNCHANGED <<op, pc, exc, startMethod, users, tags, LIMIT, account_summaries, ai, ui,
                   batch, log, wire, nBatches, nExecutes, spawned,
                   executedPairs, reported>>
    /\ UNCHANGED <<singleVars, dateVars>>

\* line 164: batch.execute() on the caller's batch, then the next pair.
ExecuteDeleteBatch ==
    /\ op = "batch_delete_users" /\ pc = "join"
    /\ pi > Len(processes)
    /\ nExecutes' = nExecutes + 1
    /\ IF batch = <<>>
       THEN /\ UNCHANGED <<log, wire, exc, reported>>
            /\ executedPairs' = executedPairs \cup {<<ai, ui>>}
            /\ LET n == NextPair(ai, ui + 1) IN
               pc' = n.pc /\ ai' = n.ai /\ ui' = n.ui
       ELSE \/ /\ exc' = "HttpError" /\ pc' = "raised"
               /\ wire' = Append(wire, batch)
               /\ UNCHANGED <<log, executedPairs, ai, ui, reported>>
            \/ \E res \in ItemOutcomes(batch) :
               /\ wire' = Append(wire, batch)
               /\ log' = log \o Callbacks(op, batch, res, 1)
               /\ reported' = reported \o Reports(batch, res)
               /\ executedPairs' = executedPairs \cup {<<ai, ui>>}
               /\ exc' = exc
               /\ LET n == NextPair(ai, ui + 1) IN
                  pc' = n.pc /\ ai' = n.ai /\ ui' = n.ui
    /\ UNCHANGED <<op, startMethod, users, tags, LIMIT, account_summaries, pi,
                   processes, batch, nBatches, spawned>>
    /\ UNCHANGED <<singleVars, dateVars>>

\* line 166: the duration of the whole run is printed.
PrintDuration ==
    /\ op = "batch_delete_users" /\ pc = "timing"
    /\ log' = Append(log, [kind |-> "duration", id |-> 0])
    /\ pc' = "done"
    /\ UNCHANGED <<op, exc, startMethod, users, tags, LIMIT, account_summaries,
                   ai, ui, pi, processes, batch, wire, nBatches, nExecutes,
                   spawned, executedPairs, reported>>
    /\ UNCHANGED <<singleVars, dateVars>>

(***************************************************************************)
(* Tag schedules: datetime.strptime(s, "%d%m%Y") and unix_time_millis.     *)
(* A date string is its sequence of eight decimal digits.                  *)
(***************************************************************************)
IsLeap(y) == y % 4 = 0 /\ (y % 100 # 0 \/ y % 400 = 0)

DaysInMonth(y, m) ==
    IF m = 2 THEN (IF IsLeap(y) THEN 29 ELSE 28)
    ELSE IF m \in {4, 6, 9, 11} THEN 30 ELSE 31

\* "%d%m%Y": two digits of day, two of month, four of year, then the
\* datetime constructor's range checks; ValueError otherwise.
ParsesAsDate(s) ==
    LET d == 10 * s[1] + s[2]
        m == 10 * s[3] + s[4]
        y == 1000 * s[5] + 100 * s[6] + 10 * s[7] + s[8]
    IN Len(s) = 8 /\ y >= 1 /\ m \in 1..12 /\ d >= 1 /\ d <= DaysInMonth(y, m)

strptime(s) ==
    IF ParsesAsDate(s)
    THEN [year |-> 1000 * s[5] + 100 * s[6] + 10 * s[7] + s[8],
          month |-> 10 * s[3] + s[4],
          day |-> 10 * s[1] + s[2]]
    ELSE "ValueError"

\* datetime arithmetic: the proleptic Gregorian ordinal of a date.
DaysBeforeYear(y) ==
    (y - 1) * 365 + (y - 1) \div 4 - (y - 1) \div 100 + (y - 1) \div 400

RECURSIVE DaysBeforeMonth(_, _)
DaysBeforeMonth(y, m) ==
    IF m = 1 THEN 0 ELSE DaysBeforeMonth(y, m - 1) + DaysInMonth(y, m - 1)

toordinal(dt) ==
    DaysBeforeYear(dt.year) + DaysBeforeMonth(dt.year, dt.month) + dt.day

\* Millisecond values exceed TLC's 32-bit integers, so a number v
\* is held as <<hi, lo>> with v = hi * 10^6 + lo and 0 <= lo < 10^6.
Big(n) == <<n \div 1000000, n % 1000000>>

\* v * c, for a factor 0 < c <= 1000.
BigMul(v, c) ==
    <<v[1] * c + (v[2] * c) \div 1000000, (v[2] * c) % 1000000>>

BigLess(v, w) == v[1] < w[1] \/ (v[1] = w[1] /\ v[2] < w[2])

\* timedelta.total_seconds() of a whole number of days: days * 86400.
total_seconds(days) == BigMul(BigMul(Big(days), 864), 100)

\* A conversion that stops at seconds.
unix_time_seconds(dt) ==
    total_seconds(toordinal(dt) - toordinal([year |-> 1970, month |-> 1, day |-> 1]))

\* lines 328-330: epoch = utcfromtimestamp(0), i.e. 1970-01-01 00:00, and
\* (dt - epoch).total_seconds() * 1000.0 (a float that holds the integer
\* exactly: |value| < 2^53 for every year 1..9999).
unix_time_millis(dt) ==
    LET epoch == [year |-> 1970, month |-> 1, day |-> 1]
    IN BigMul(total_seconds(toordinal(dt) - toordinal(epoch)), 1000)

\* lines 377-382 and 408-411: the schedule bounds written into tag_body.
Schedule(body, start, end) ==
    [name |-> body,
     scheduleStartMs |-> unix_time_millis(strptime(start)),
     scheduleEndMs |-> unix_time_millis(strptime(end))]

\* The date strings of main(): "23052019", "26052019", "28052019".
D23052019 == <<2, 3, 0, 5, 2, 0, 1, 9>>
D26052019 == <<2, 6, 0, 5, 2, 0, 1, 9>>
D28052019 == <<2, 8, 0, 5, 2, 0, 1, 9>>
DatePairs == {<<D23052019, D26052019>>, <<D26052019, D28052019>>}

\* batch_create_tags: a tag is (tag_body, startDate, endDate).
TagSpecs == [wellFormed : BOOLEAN, dates : DatePairs]
CreateTagLists == SeqsUpTo(TagSpecs, MaxTags)
\* batch_delete_tags: a tag is a tag id.
TagIds == [id : {495}, wellFormed : BOOLEAN]
DeleteTagLists == SeqsUpTo(TagIds, MaxTags)

(***************************************************************************)
(* batch_add_users                                                         *)
(***************************************************************************)
\* line 202: the batch is created.
AddUsersNewBatch ==
    /\ op = "batch_add_users" /\ pc = "start"
    /\ batch' = <<>>
    /\ nBatches' = nBatches + 1
    /\ ui' = 1 /\ pi' = 1
    /\ pc' = "add"
    /\ UNCHANGED <<op, exc, startMethod, users, tags, LIMIT, account_summaries,
                   ai, processes, log, wire, nExecutes, spawned, executedPairs, reported>>
    /\ UNCHANGED <<singleVars, dateVars>>

\* lines 204-220: one insert request per (user, request); building the
\* request is outside any try, so a malformed one raises TypeError.
AddUserRequest ==
    /\ op = "batch_add_users" /\ pc = "add"
    /\ ui <= Len(users)
    /\ LET user_email == users[ui][1]
           requests == users[ui][2]
       IN IF pi > Len(requests)
          THEN /\ ui' = ui + 1 /\ pi' = 1
               /\ UNCHANGED <<batch, exc, pc>>
          ELSE IF requests[pi].wellFormed
          THEN /\ batch' = BatchAdd(batch,
                      [webPropertyId |-> requests[pi].webPropertyId,
                       profileId |-> requests[pi].profileId,
                       email |-> user_email])
               /\ pi' = pi + 1
               /\ UNCHANGED <<ui, exc, pc>>
          ELSE /\ exc' = "TypeError" /\ pc' = "raised"
               /\ UNCHANGED <<batch, ui, pi>>
    /\ UNCHANGED <<op, startMethod, users, tags, LIMIT, account_summaries, ai,
                   processes, log, wire, nBatches, nExecutes, spawned,
                   executedPairs, reported>>
    /\ UNCHANGED <<singleVars, dateVars>>

\* batch.execute(), for the three single-process bulk operations: nothing
\* is sent for an empty batch; a non-2xx answer to the batch itself raises
\* HttpError; otherwise every item reaches the callback.
ExecuteBatch ==
    /\ nExecutes' = nExecutes + 1
    /\ IF batch = <<>>
       THEN /\ pc' = "done"
            /\ UNCHANGED <<log, wire, exc, reported>>
       ELSE /\ wire' = Append(wire, batch)
            /\ \/ /\ exc' = "HttpError" /\ pc' = "raised"
                  /\ UNCHANGED <<log, reported>>
               \/ \E res \in ItemOutcomes(batch) :
                  /\ log' = log \o Callbacks(op, batch, res, 1)
                  /\ reported' = reported \o Reports(batch, res)
                  /\ pc' = "done"
                  /\ UNCHANGED exc
    /\ UNCHANGED <<op, startMethod, users, tags, LIMIT, account_summaries, ai,
                   ui, pi, processes, batch, nBatches, spawned, executedPairs>>
    /\ UNCHANGED <<singleVars, dateVars>>

\* line 222
AddUsersExecute ==
    /\ op = "batch_add_users" /\ pc = "add"
    /\ ui > Len(users)
    /\ ExecuteBatch

(***************************************************************************)
(* batch_create_tags and batch_delete_tags                                 *)
(***************************************************************************)
\* A check that already warns at the limit.
LimitWarning_at_limit(n, limit) ==
    IF n >= limit THEN <<[kind |-> "warning", id |-> limit]>> ELSE <<>>

\* lines 344-345 and 369-370: the warning, and nothing else.
LimitWarning(n, limit) ==
    IF n > limit THEN <<[kind |-> "warning", id |-> limit]>> ELSE <<>>

\* lines 344-348 and 369-373: the limit check, then the batch is created.
TagsNewBatch ==
    /\ op \in {"batch_create_tags", "batch_delete_tags"} /\ pc = "start"
    /\ log' = log \o LimitWarning(Len(tags), LIMIT)
    /\ batch' = <<>>
    /\ nBatches' = nBatches + 1
    /\ pi' = 1
    /\ pc' = "add"
    /\ UNCHANGED <<op, exc, startMethod, users, tags, LIMIT, account_summaries,
                   ai, ui, processes, wire, nExecutes, spawned, executedPairs, reported>>
    /\ UNCHANGED <<singleVars, dateVars>>

\* lines 375-389: the schedule is computed, the create request built and
\* added; a malformed request raises TypeError out of the function.
CreateTagRequest ==
    /\ op = "batch_create_tags" /\ pc = "add"
    /\ pi <= Len(tags)
    /\ IF tags[pi].wellFormed
       THEN /\ batch' = BatchAdd(batch,
                  Schedule(pi, tags[pi].dates[1], tags[pi].dates[2]))
            /\ pi' = pi + 1
            /\ UNCHANGED <<exc, pc>>
       ELSE /\ exc' = "TypeError" /\ pc' = "raised"
            /\ UNCHANGED <<batch, pi>>
    /\ UNCHANGED <<op, startMethod, users, tags, LIMIT, account_summaries, ai,
                   ui, processes, log, wire, nBatches, nExecutes, spawned,
                   executedPairs, reported>>
    /\ UNCHANGED <<singleVars, dateVars>>

\* lines 350-352
DeleteTagRequest ==
    /\ op = "batch_delete_tags" /\ pc = "add"
    /\ pi <= Len(tags)
    /\ IF tags[pi].wellFormed
       THEN /\ batch' = BatchAdd(batch, [path |-> tags[pi].id])
            /\ pi' = pi + 1
            /\ UNCHANGED <<exc, pc>>
       ELSE /\ exc' = "TypeError" /\ pc' = "raised"
            /\ UNCHANGED <<batch, pi>>
    /\ UNCHANGED <<op, startMethod, users, tags, LIMIT, account_summaries, ai,
                   ui, processes, log, wire, nBatches, nExecutes, spawned,
                   executedPairs, reported>>
    /\ UNCHANGED <<singleVars, dateVars>>

\* line 390
CreateTagsExecute ==
    /\ op = "batch_create_tags" /\ pc = "add"
    /\ pi > Len(tags)
    /\ ExecuteBatch

\* line 353
DeleteTagsExecute ==
    /\ op = "batch_delete_tags" /\ pc = "add"
    /\ pi > Len(tags)
    /\ ExecuteBatch

(***************************************************************************)
(* The single-entity operations: one remote call inside a try with two     *)
(* except clauses, TypeError and HttpError.                                *)
(***************************************************************************)
SingleOps == {"list_account_users", "list_view_users", "add_user_to_view",
              "delete_user_from_view", "list_containers", "get_container",
              "create_workspace", "create_tag", "delete_tag", "list_tags",
              "list_triggers"}

D31022019 == <<3, 1, 0, 2, 2, 0, 1, 9>>

\* The arguments that matter: whether the API client accepts the query's
\* parameters, the config dict of add_user_to_view, the container of
\* create_workspace, the date strings of create_tag.
SingleArgs(o) ==
    [query : {"ok", "bad_parameter"},
     config : IF o = "add_user_to_view" THEN {"ok", "no_email"} ELSE {"n/a"},
     container : IF o = "create_workspace" THEN {"ok", "None", "no_path"}
                 ELSE {"n/a"},
     startDate : IF o = "create_tag" THEN {D23052019, D31022019} ELSE {<<>>},
     endDate : IF o = "create_tag" THEN {D26052019} ELSE {<<>>}]

\* The answers of the remote service: a 2xx body (with or without the list
\* key the caller subscripts) or a non-2xx answer, raised as HttpError.
Responses ==
    {[ok |-> TRUE, status |-> 200, reason |-> "OK", body |-> b] :
        b \in {"full", "empty"}}
    \cup {[ok |-> FALSE, status |-> 403, reason |-> "Forbidden", body |-> "none"],
          [ok |-> FALSE, status |-> 500, reason |-> "Internal Server Error",
           body |-> "none"]}

NoResponse == [ok |-> TRUE, status |-> 0, reason |-> "", body |-> "none"]

\* The code before the try: create_tag computes the schedule (lines
\* 407-411), where strptime raises ValueError on a date that does not exist.
BeforeTry(o, a) ==
    IF o = "create_tag"
       /\ ~(ParsesAsDate(a.startDate) /\ ParsesAsDate(a.endDate))
    THEN "ValueError" ELSE "none"

\* Building the request inside the try: the argument expressions first
\* (config["email"] at lines 234-235, container["path"] at line 315), then
\* the API client's check of the parameters, which raises TypeError.
BuildRequest(o, a) ==
    IF o = "add_user_to_view" /\ a.config = "no_email" THEN "KeyError"
    ELSE IF o = "create_workspace" /\ a.container = "None" THEN "TypeError"
    ELSE IF o = "create_workspace" /\ a.container = "no_path" THEN "KeyError"
    ELSE IF a.query = "bad_parameter" THEN "TypeError"
    ELSE "none"

\* After a 2xx answer: lines 260 and 285 subscript container_wrapper with
\* "container"; every other operation uses .get or does not read the body.
AfterResponse(o, r) ==
    IF o \in {"list_containers", "get_container"} /\ r.body = "empty"
    THEN "KeyError" ELSE "none"

\* The value returned on success; the three operations without a return
\* statement give None, get_container gives None when no name matches.
ReturnValue(o, r) ==
    IF o \in {"add_user_to_view", "delete_user_from_view", "delete_tag"}
    THEN {"None"}
    ELSE IF o = "get_container" THEN {"None", "container"}
    ELSE {"response"}

\* What the operation prints on success: the listing operations print one
\* line per listed item (lines 57-59, 260-261, 473-475, 506-508).
SuccessLines(o, r) ==
    IF o \in {"list_account_users", "list_containers", "list_tags",
              "list_triggers"} /\ r.body = "full"
    THEN <<[kind |-> "listed item", status |-> r.status, reason |-> r.reason]>>
    ELSE <<>>

\* A try with the TypeError clause only.
Caught_TypeError_only(e) == e = "TypeError"

\* The two except clauses shared by all eleven operations.
Caught(e) == e \in {"TypeError", "HttpError"}

ExceptLine(e, r) ==
    IF e = "TypeError" THEN [kind |-> "constructing your query", status |-> 0,
                             reason |-> "TypeError"]
    ELSE [kind |-> "API error", status |-> r.status, reason |-> r.reason]

\* An exception e inside the try: caught, printed and None returned, or
\* not caught and out of the call.
Except(e, r) ==
    IF Caught(e)
    THEN /\ slog' = Append(slog, ExceptLine(e, r))
         /\ sresult' = "None"
         /\ spc' = "returned"
         /\ UNCHANGED sexc
    ELSE /\ sexc' = e
         /\ spc' = "raised"
         /\ UNCHANGED <<slog, sresult>>

\* The call, up to the try.
SingleCall ==
    /\ spc = "idle"
    /\ \E o \in SingleOps : \E a \in SingleArgs(o) :
        /\ sop' = o /\ sargs' = a
        /\ sresponse' = NoResponse /\ sresult' = "pending" /\ slog' = <<>>
        /\ scalls' = 0
        /\ IF BeforeTry(o, a) = "none"
           THEN spc' = "try" /\ sexc' = "none"
           ELSE spc' = "raised" /\ sexc' = BeforeTry(o, a)
    /\ UNCHANGED <<bulkVars, dateVars>>

\* The request is built inside the try.
SingleBuild ==
    /\ spc = "try"
    /\ IF BuildRequest(sop, sargs) = "none"
       THEN spc' = "built" /\ UNCHANGED <<slog, sresult, sexc>>
       ELSE Except(BuildRequest(sop, sargs), sresponse)
    /\ UNCHANGED <<sop, sargs, sresponse, scalls>>
    /\ UNCHANGED <<bulkVars, dateVars>>

\* .execute(): the one remote call, and the rest of the try body.
SingleExecute ==
    /\ spc = "built"
    /\ scalls' = scalls + 1
    /\ \E r \in Responses :
        /\ sresponse' = r
        /\ IF ~r.ok THEN Except("HttpError", r)
           ELSE IF AfterResponse(sop, r) # "none"
           THEN Except(AfterResponse(sop, r), r)
           ELSE /\ \E v \in ReturnValue(sop, r) : sresult' = v
                /\ slog' = slog \o SuccessLines(sop, r)
                /\ spc' = "returned"
                /\ UNCHANGED sexc
    /\ UNCHANGED <<sop, sargs>>
    /\ UNCHANGED <<bulkVars, dateVars>>

\* Back in the caller, which may call again.
SingleDone ==
    /\ spc \in {"returned", "raised"}
    /\ spc' = "idle"
    /\ UNCHANGED <<sop, sargs, sresponse, sresult, sexc, slog, scalls>>
    /\ UNCHANGED <<bulkVars, dateVars>>

SingleIdle ==
    /\ sop = "none" /\ sargs = "none" /\ spc = "idle" /\ sresponse = NoResponse
    /\ sresult = "pending" /\ sexc = "none" /\ slog = <<>> /\ scalls = 0

(***************************************************************************)
(* The schedule computation over the calendar: two dates, each walked      *)
(* forward day by day from a date whose distance to 1970-01-01 is known.   *)
(***************************************************************************)
MaxWalk == 6

\* date, days since 1970-01-01, and that many times 86,400,000.
Anchors ==
    {[date |-> <<27, 12, 1969>>, day |-> -5, ms |-> <<-432, 0>>],
     [date |-> <<26, 2, 1900>>, day |-> -25511, ms |-> <<-2204151, 600000>>],
     [date |-> <<29, 12, 1999>>, day |-> 10954, ms |-> <<946425, 600000>>],
     [date |-> <<26, 2, 2000>>, day |-> 11013, ms |-> <<951523, 200000>>],
     [date |-> <<26, 2, 2019>>, day |-> 17953, ms |-> <<1551139, 200000>>],
     [date |-> <<26, 2, 2020>>, day |-> 18318, ms |-> <<1582675, 200000>>]}

\* The calendar's own rules: the day after <<d, m, y>>.
CalendarLeap(y) ==
    IF y % 400 = 0 THEN TRUE ELSE IF y % 100 = 0 THEN FALSE ELSE y % 4 = 0

MonthLength(m, y) ==
    CASE m = 2 -> (IF CalendarLeap(y) THEN 29 ELSE 28)
      [] m \in {4, 6, 9, 11} -> 30
      [] OTHER -> 31

Tomorrow(dmy) ==
    LET d == dmy[1] m == dmy[2] y == dmy[3] IN
    IF d < MonthLength(m, y) THEN <<d + 1, m, y>>
    ELSE IF m < 12 THEN <<1, m + 1, y>>
    ELSE <<1, 1, y + 1>>

BigAdd(v, w) ==
    <<v[1] + w[1] + (v[2] + w[2]) \div 1000000, (v[2] + w[2]) % 1000000>>

NextDay(c) ==
    [date |-> Tomorrow(c.date), day |-> c.day + 1,
     ms |-> BigAdd(c.ms, <<86, 400000>>), steps |-> c.steps + 1]

\* The DDMMYYYY string of a date, as its eight digits.
DDMMYYYY(dmy) ==
    <<dmy[1] \div 10, dmy[1] % 10, dmy[2] \div 10, dmy[2] % 10,
      dmy[3] \div 1000, (dmy[3] \div 100) % 10, (dmy[3] \div 10) % 10,
      dmy[3] % 10>>

WalkStart ==
    /\ calendar.start.steps < MaxWalk
    /\ calendar' = [calendar EXCEPT !.start = NextDay(calendar.start)]
    /\ startDate' = DDMMYYYY(Tomorrow(calendar.start.date))
    /\ tag_body' = [name |-> "Test Tag 1"]
    /\ UNCHANGED endDate
    /\ UNCHANGED <<bulkVars, singleVars>>

WalkEnd ==
    /\ calendar.end.steps < MaxWalk
    /\ calendar' = [calendar EXCEPT !.end = NextDay(calendar.end)]
    /\ endDate' = DDMMYYYY(Tomorrow(calendar.end.date))
    /\ tag_body' = [name |-> "Test Tag 1"]
    /\ UNCHANGED startDate
    /\ UNCHANGED <<bulkVars, singleVars>>

\* lines 377-382 of batch_create_tags, lines 408-411 of create_tag.
ComputeSchedule ==
    /\ DOMAIN tag_body = {"name"}
    /\ tag_body' = Schedule(tag_body.name, startDate, endDate)
    /\ UNCHANGED <<startDate, endDate, calendar>>
    /\ UNCHANGED <<bulkVars, singleVars>>

DatesIdle ==
    /\ startDate = <<>> /\ endDate = <<>> /\ calendar = "none"
    /\ tag_body = [name |-> "Test Tag 1"]

BulkOps == {"batch_delete_users", "batch_add_users", "batch_create_tags",
            "batch_delete_tags"}

InitBulk ==
    /\ op \in BulkOps
    /\ pc = "start"
    /\ exc = "none"
    /\ startMethod \in (IF op = "batch_delete_users" THEN {"fork", "spawn"}
                        ELSE {"fork"})
    /\ users \in (IF op = "batch_delete_users" THEN UserLists
                  ELSE IF op = "batch_add_users" THEN AddUserLists
                  ELSE {<<>>})
    /\ tags \in (IF op = "batch_create_tags" THEN CreateTagLists
                 ELSE IF op = "batch_delete_tags" THEN DeleteTagLists
                 ELSE {<<>>})
    /\ LIMIT \in (IF op \in {"batch_create_tags", "batch_delete_tags"}
                  THEN 1..MaxLimit ELSE {1000})
    /\ account_summaries = <<>>
    /\ ai = 1 /\ ui = 1 /\ pi = 1
    /\ processes = <<>>
    /\ batch = <<>>
    /\ log = <<>>
    /\ wire = <<>>
    /\ nBatches = 0
    /\ nExecutes = 0
    /\ spawned = <<>>
    /\ executedPairs = {}
    /\ reported = <<>>
    /\ SingleIdle /\ DatesIdle

BulkIdle ==
    /\ op = "none" /\ pc = "idle" /\ exc = "none" /\ startMethod = "fork"
    /\ users = <<>> /\ tags = <<>> /\ LIMIT = 1000
    /\ account_summaries = <<>> /\ ai = 1 /\ ui = 1 /\ pi = 1
    /\ processes = <<>> /\ batch = <<>> /\ log = <<>> /\ wire = <<>>
    /\ nBatches = 0 /\ nExecutes = 0 /\ spawned = <<>>
    /\ executedPairs = {} /\ reported = <<>>

NextBulk ==
    \/ ListAccountSummaries
    \/ NewPair
    \/ StartProcess
    \/ AllStarted
    \/ WorkerListView
    \/ WorkerExit
    \/ JoinProcess
    \/ ExecuteDeleteBatch
    \/ PrintDuration
    \/ AddUsersNewBatch
    \/ AddUserRequest
    \/ AddUsersExecute
    \/ TagsNewBatch
    \/ CreateTagRequest
    \/ DeleteTagRequest
    \/ CreateTagsExecute
    \/ DeleteTagsExecute

SpecBulk == InitBulk /\ [][NextBulk]_vars

InitSingle == BulkIdle /\ SingleIdle /\ DatesIdle

NextSingle ==
    \/ SingleCall
    \/ SingleBuild
    \/ SingleExecute
    \/ SingleDone

SpecSingle == InitSingle /\ [][NextSingle]_vars

InitDates ==
    /\ BulkIdle /\ SingleIdle
    /\ \E a, b \in Anchors :
        /\ calendar = [start |-> [date |-> a.date, day |-> a.day, ms |-> a.ms,
                                  steps |-> 0],
                       end |-> [date |-> b.date, day |-> b.day, ms |-> b.ms,
                                steps |-> 0]]
        /\ startDate = DDMMYYYY(a.date)
        /\ endDate = DDMMYYYY(b.date)
    /\ tag_body = [name |-> "Test Tag 1"]

NextDates ==
    \/ WalkStart
    \/ WalkEnd
    \/ ComputeSchedule

SpecDates == InitDates /\ [][NextDates]_vars

(***************************************************************************)
(* Properties                                                              *)
(***************************************************************************)
Deleting == op = "batch_delete_users"

\* The caller has joined every worker and is about to execute the batch.
AllJoined == pc = "join" /\ pi > Len(processes)

InBatch(r, b) == \E j \in 1..Len(b) : b[j] = r

\* C1: every delete request a per-property worker enqueues is in the batch
\* the caller executes for that (account, email) pair.
C1_WorkerRequestsInExecutedBatch ==
    (Deleting /\ AllJoined) =>
        \A k \in 1..Len(processes) :
            \A i \in 1..Len(processes[k].batch) :
                InBatch(processes[k].batch[i], batch)

\* Pairs in loop order.
PairBefore(p, q) == p[1] < q[1] \/ (p[1] = q[1] /\ p[2] < q[2])

PairsOfRun ==
    {<<a, u>> : a \in 1..Len(account_summaries), u \in 1..Len(users)}

\* C2: the batch of a pair is executed only once every worker of the pair
\* has terminated and been joined, and no worker of a later pair exists
\* before the batch of every earlier pair has been executed.
C2_ExecuteAfterAllJoined ==
    Deleting =>
        \A k \in 1..Len(processes) :
            /\ processes[k].pair \in executedPairs =>
                  (processes[k].joined /\ processes[k].state # "running")
            /\ \A q \in PairsOfRun :
                  PairBefore(q, processes[k].pair) => q \in executedPairs

C2_Witness ==
    /\ Deleting
    /\ Len(processes) = 2
    /\ \A k \in 1..2 : processes[k].pair \in executedPairs
    /\ \E k \in 1..2 : processes[k].batch # <<>>
    /\ Cardinality(executedPairs) >= 2

\* No view listed for the current pair has a link of the pair's e-mail.
NoMatchingLink ==
    \A k \in 1..Len(processes) :
        \A i \in 1..Len(processes[k].listed) :
            \A j \in 1..Len(processes[k].listed[i]) :
                processes[k].listed[i][j].email # processes[k].user

ExecutesBatch == nExecutes' = nExecutes + 1

\* C3: with no link of the requested e-mail in any view of the account, no
\* delete request is queued for the pair, and executing the pair's batch
\* sends nothing, calls no callback and raises nothing.
C3_NoMatchNoRequestNoOp ==
    /\ [](Deleting /\ NoMatchingLink =>
            /\ batch = <<>>
            /\ \A k \in 1..Len(processes) : processes[k].batch = <<>>)
    /\ [][(Deleting /\ NoMatchingLink /\ ExecutesBatch) =>
            (wire' = wire /\ reported' = reported /\ log' = log
             /\ exc' = "none" /\ pc' # "raised")]_vars

C3_Witness ==
    /\ Deleting
    /\ NoMatchingLink
    /\ Len(processes) = 2
    /\ \A k \in 1..2 : processes[k].listed # <<>> /\ processes[k].listed[1] # <<>>
    /\ \A k \in 1..2 : processes[k].pair \in executedPairs

TagOp == op \in {"batch_create_tags", "batch_delete_tags"}

AllWellFormed == \A i \in 1..Len(tags) : tags[i].wellFormed

Warnings == SelectSeq(log, LAMBDA l : l.kind = "warning")

\* The request queued for the i-th tag.
QueuedFor(i) ==
    IF op = "batch_delete_tags" THEN batch[i].path = tags[i].id
    ELSE batch[i].name = i

C7_NoExceptionLeavesBulkOperation == exc = "none"

RECURSIVE Flatten(_)
Flatten(batches) ==
    IF batches = <<>> THEN <<>> ELSE Head(batches) \o Flatten(Tail(batches))

Failed == SelectSeq(reported, LAMBDA r : r.exception # "none")

ErrorLines == SelectSeq(log, LAMBDA l : l.kind = "error")

\* C8: once a batch has been executed, the callback has been called once
\* for every queued item, with its request id and its response or
\* exception; a failed item is printed as an error and the items after it
\* are still reported.
C8_CallbackPerQueuedItem ==
    (op # "none" /\ exc # "HttpError") =>
        /\ Len(reported) = Len(Flatten(wire))
        /\ \A i \in 1..Len(reported) : reported[i].request = Flatten(wire)[i]
        /\ (~Deleting /\ pc = "done") =>
              /\ Len(reported) = Len(batch)
              /\ \A i \in 1..Len(batch) : reported[i].id = i
        /\ Len(ErrorLines) = Len(Failed)
        /\ \A i \in 1..Len(Failed) : ErrorLines[i].id = Failed[i].id

C8_Witness ==
    /\ op = "batch_create_tags" /\ pc = "done"
    /\ Len(batch) = 3 /\ Len(reported) = 3
    /\ reported[1].exception = "HttpError"
    /\ reported[2].exception = "none"
    /\ reported[3].exception = "HttpError"
    /\ Len(ErrorLines) = 2

Count(s, x) == Cardinality({i \in 1..Len(s) : s[i] = x})

\* C10: a run without failure over A accounts and U e-mails creates one
\* batch and calls batch.execute() once for each of the A x U pairs, starts
\* one worker per web property of the account for each pair, and starts
\* them all whatever the number of workers already running.
C10_OneBatchPerPairOneWorkerPerProperty ==
    Deleting =>
        /\ (pc = "done" /\ exc = "none") =>
              /\ nBatches = Len(account_summaries) * Len(users)
              /\ nExecutes = Len(account_summaries) * Len(users)
              /\ executedPairs = PairsOfRun
              /\ Len(spawned) = Len(users) * SumProps(account_summaries)
              /\ \A a \in 1..Len(account_summaries) :
                    \A p \in 1..Len(account_summaries[a]) :
                        Count(spawned, <<a, p>>) = Len(users)
        /\ (pc = "spawn" /\ pi <= Len(Account)) => ENABLED StartProcess
        /\ pc = "join" => Len(processes) = Len(Account)
        /\ nBatches - nExecutes \in {0, 1}

C10_Witness ==
    /\ Deleting /\ pc = "done" /\ exc = "none"
    /\ Len(account_summaries) = 2 /\ Len(users) = 2
    /\ nBatches = 4 /\ nExecutes = 4
    /\ Len(spawned) = 4

\* Every worker of a pair running at the same time.
C10_AllWorkersOfAPairRunTogether ==
    /\ Deleting
    /\ Len(processes) = MaxProps
    /\ \A k \in 1..Len(processes) : processes[k].state = "running"

Malformed ==
    \/ sargs.query = "bad_parameter"
    \/ sargs.config = "no_email"
    \/ sargs.container \in {"None", "no_path"}

\* C5: a malformed query to a single-entity operation prints the
\* "constructing your query" message and returns None; nothing is raised.
C5_MalformedQueryReturnsNone ==
    (spc \in {"returned", "raised"} /\ Malformed) =>
        /\ spc = "returned"
        /\ sexc = "none"
        /\ sresult = "None"
        /\ Len(slog) = 1 /\ slog[1].kind = "constructing your query"

\* C6: when the one remote call of a single-entity operation gets a non-2xx
\* answer, the status code and reason are printed, None is returned, no
\* second call is made and nothing is raised.
C6_HttpErrorLoggedNoneReturned ==
    (spc \in {"returned", "raised"} /\ ~sresponse.ok) =>
        /\ spc = "returned"
        /\ sexc = "none"
        /\ sresult = "None"
        /\ scalls = 1
        /\ slog = <<[kind |-> "API error", status |-> sresponse.status,
                     reason |-> sresponse.reason]>>

C6_Witness ==
    /\ spc = "returned" /\ sop = "delete_user_from_view"
    /\ ~sresponse.ok /\ sresponse.status = 403
    /\ sresult = "None" /\ scalls = 1

\* The date of a millisecond value: whole days since 1970-01-01, then the
\* civil date of that day number.
DaysOfMillis(v) == (v[1] * 10 + v[2] \div 100000) \div 864

IsMidnight(v) ==
    v[2] % 100000 = 0 /\ (v[1] * 10 + v[2] \div 100000) % 864 = 0

CivilFromDays(n) ==
    LET z == n + 719468
        era == z \div 146097
        doe == z - era * 146097
        yoe == (doe - doe \div 1460 + doe \div 36524 - doe \div 146096) \div 365
        doy == doe - (365 * yoe + yoe \div 4 - yoe \div 100)
        mp == (5 * doy + 2) \div 153
        d == doy - (153 * mp + 2) \div 5 + 1
        m == IF mp < 10 THEN mp + 3 ELSE mp - 9
        y == yoe + era * 400 + (IF m <= 2 THEN 1 ELSE 0)
    IN <<d, m, y>>

DateBefore(p, q) ==
    \/ p[3] < q[3]
    \/ p[3] = q[3] /\ p[2] < q[2]
    \/ p[3] = q[3] /\ p[2] = q[2] /\ p[1] < q[1]

Scheduled == DOMAIN tag_body # {"name"}

\* C9: the schedule value of a DDMMYYYY date is its number of days since
\* 1970-01-01 times 86,400,000; an earlier start date gives a smaller
\* value than a later end date; converting a value back gives the date.
C9_ScheduleIsDaysSinceEpochInMs ==
    Scheduled =>
        /\ tag_body.scheduleStartMs = calendar.start.ms
        /\ tag_body.scheduleEndMs = calendar.end.ms
        /\ IsMidnight(tag_body.scheduleStartMs)
        /\ IsMidnight(tag_body.scheduleEndMs)
        /\ DaysOfMillis(tag_body.scheduleStartMs) = calendar.start.day
        /\ DaysOfMillis(tag_body.scheduleEndMs) = calendar.end.day
        /\ DateBefore(calendar.start.date, calendar.end.date) =>
              BigLess(tag_body.scheduleStartMs, tag_body.scheduleEndMs)
        /\ CivilFromDays(DaysOfMillis(tag_body.scheduleStartMs)) = calendar.start.date
        /\ CivilFromDays(DaysOfMillis(tag_body.scheduleEndMs)) = calendar.end.date

C9_Witness ==
    /\ Scheduled
    /\ calendar.start.date = <<29, 2, 2000>>
    /\ calendar.end.date = <<1, 3, 2000>>
    /\ BigLess(tag_body.scheduleStartMs, tag_body.scheduleEndMs)

\* The delete request for link x of view v of property k of account a.
DeleteOf(a, k, v, x) ==
    [accountId |-> a, webPropertyId |-> k, profileId |-> v, linkId |-> x.id]

\* The links the worker was shown, each with the view it was listed under.
ShownLinks(w) ==
    UNION {{<<v, w.listed[v][j]>> : j \in 1..Len(w.listed[v])} :
              v \in 1..Len(w.listed)}

\* C11: every worker spawned for an (account, e-mail) pair lists the views
\* of its own property one after the other, all of them before it exits,
\* and has enqueued exactly one delete request, addressed to its account,
\* its property, the view and the link id, for every link it was shown
\* whose e-mail is the pair's e-mail, and no request for any other link.
C11_WorkerDeletesExactlyLinksOfItsPair ==
    Deleting =>
        \A k \in 1..Len(processes) :
            LET w == processes[k]
                a == w.pair[1]
                email == users[w.pair[2]]
                mine == {s \in ShownLinks(w) : s[2].email = email}
                others == {s \in ShownLinks(w) : s[2].email # email}
            IN /\ pc \in {"spawn", "join"} => w.pair = <<ai, ui>>
               /\ Len(w.listed) <= account_summaries[a][k]
               /\ w.state = "exited" => Len(w.listed) = account_summaries[a][k]
               /\ \A s \in mine : Count(w.batch, DeleteOf(a, k, s[1], s[2])) = 1
               /\ \A s \in others : Count(w.batch, DeleteOf(a, k, s[1], s[2])) = 0
               /\ Len(w.batch) = Cardinality(mine)
               /\ \A i \in 1..Len(w.batch) :
                     \E s \in mine : w.batch[i] = DeleteOf(a, k, s[1], s[2])

\* A worker of the second e-mail of the list that was shown links of both
\* e-mails in each of two views, and has run to its end.
C11_Witness ==
    /\ Deleting
    /\ \E k \in 1..Len(processes) :
          /\ processes[k].pair[2] = 2
          /\ processes[k].state = "exited"
          /\ Len(processes[k].listed) = 2
          /\ \A v \in 1..2 : Len(processes[k].listed[v]) = 2
          /\ Len(processes[k].batch) = 2
====
